---- MODULE Spec2Model ----
(***************************************************************************)
(* fastapi_zero: user accounts, JWT bearer authentication and per-user     *)
(* todos over a relational store.                                          *)
(*                                                                         *)
(* The store is the two tables of models.py with their constraints (the    *)
(* unique columns of users, the foreign key of todos).  Every request runs *)
(* in a session of its own: a statement that reads and the commit that     *)
(* writes are separate steps, and the requests in flight interleave        *)
(* between them.  A protected route's dependency get_current_user is       *)
(* resolved in the step in which the request arrives; the route's handler  *)
(* runs in a later step, on the user object that step loaded.              *)
(***************************************************************************)
EXTENDS Integers, Sequences, FiniteSets, Bags, TLC

VARIABLES users, todos, user_seq, todo_seq, now, issued, req, last

vars == <<users, todos, user_seq, todo_seq, now, issued, req, last>>

(***************************************************************************)
(* Bounds of the model and the inputs the requests draw from.              *)
(***************************************************************************)
MaxUserId == 2
MaxTodoId == 2
MaxTokens == 1
MaxNow == 32
MaxInFlight == 2

Usernames == {"alice", "bob"}
Emails == {"a@x", "b@x"}
Passwords == {"pw1", "pw2"}
NewPasswords == {"pw1"}
Salts == {"s1"}
Titles == {<<"T", "e", "s", "t">>, <<"O", "t", "h">>}
Descriptions == {<<"d">>}
StateInputs == {"todo", "doing"}
None == "None"

\* security.py: ACCESS_TOKEN_EXPIRE_MINUTES
ACCESS_TOKEN_EXPIRE_MINUTES == 30

\* The clock advances by one of these amounts (minutes).
TickSteps == {16}

\* models.py: TodoState
\* mutant of TodoState: the enumeration has a sixth member
TodoState_with_invalid == {"draft", "todo", "doing", "done", "trash", "invalid"}

TodoState == {"draft", "todo", "doing", "done", "trash"}

UserIds == 1..MaxUserId
TodoIds == 1..MaxTodoId

(***************************************************************************)
(* Credential hasher (security.py).  pwdlib's recommended hasher salts     *)
(* each digest; a digest is an identifiable argon2 string or it is not.    *)
(***************************************************************************)
\* mutant of get_password_hash: the digest does not depend on the password
get_password_hash_constant(password, salt) ==
    [alg |-> "argon2", salt |-> salt, pw |-> "pw1"]

get_password_hash(password, salt) ==
    [alg |-> "argon2", salt |-> salt, pw |-> password]

IsDigest(hashed) == hashed.alg = "argon2"

\* mutant of verify_password: every password verifies against a digest
verify_password_any(plain_password, hashed_password) ==
    IF ~IsDigest(hashed_password) THEN "UnknownHashError" ELSE "True"

\* "True" / "False", or the exception pwdlib raises on an unidentifiable hash
verify_password(plain_password, hashed_password) ==
    IF ~IsDigest(hashed_password) THEN "UnknownHashError"
    ELSE IF hashed_password.pw = plain_password THEN "True"
    ELSE "False"

(***************************************************************************)
(* Token service (security.py).  A presented token is what the bearer      *)
(* header carries: its form (well signed, wrongly signed, not a JWT), the  *)
(* payload's sub (None when the payload has none) and exp.                 *)
(***************************************************************************)
create_access_token(sub, t) ==
    [form |-> "signed", sub |-> sub, exp |-> t + ACCESS_TOKEN_EXPIRE_MINUTES]

\* jwt.decode: the signature is verified first, then exp against the clock
decode(token, t) ==
    IF token.form # "signed" THEN [raised |-> "DecodeError", sub |-> None]
    ELSE IF token.exp <= t THEN [raised |-> "ExpiredSignatureError", sub |-> None]
    ELSE [raised |-> "", sub |-> token.sub]

\* no user object
NoUser == [id |-> 0, username |-> None, email |-> None,
           password |-> [alg |-> None, salt |-> None, pw |-> None]]

\* mutant of UserByEmail: the query without its where clause
UserByEmail_any(rows, email) == rows

\* session.scalar(select(User).where(User.email == subject_email))
UserByEmail(rows, email) == {u \in rows : u.email = email}

\* get_current_user: the user it returns, or what it raises
get_current_user(token, t, rows) ==
    LET payload == decode(token, t) IN
    IF payload.raised = "DecodeError"
        THEN [raised |-> "credentials_exception", user |-> NoUser]
    ELSE IF payload.raised # ""
        THEN [raised |-> payload.raised, user |-> NoUser]
    ELSE IF payload.sub = None
        THEN [raised |-> "credentials_exception", user |-> NoUser]
    ELSE IF UserByEmail(rows, payload.sub) = {}
        THEN [raised |-> "credentials_exception", user |-> NoUser]
    ELSE [raised |-> "", user |-> CHOOSE u \in UserByEmail(rows, payload.sub) : TRUE]

(***************************************************************************)
(* Store constraints (models.py).                                          *)
(***************************************************************************)
\* mutant of UniqueViolation: only users.username is a unique column
UniqueViolation_username_only(rows, row) ==
    \E u \in rows : u.id # row.id /\ u.username = row.username

\* mutant of UniqueViolation: the row's own stored values count as taken
UniqueViolation_own_row(rows, row) ==
    \E u \in rows : u.username = row.username \/ u.email = row.email

\* users.username and users.email are unique columns
UniqueViolation(rows, row) ==
    \E u \in rows : u.id # row.id /\ (u.username = row.username \/ u.email = row.email)

\* mutant of ForeignKeyViolation: the store does not enforce the reference
ForeignKeyViolation_unenforced(rows, todo_rows) == FALSE

\* todos.user_id references users.id: some todo row references no user row
ForeignKeyViolation(rows, todo_rows) ==
    \E t \in todo_rows : ~\E u \in rows : u.id = t.user_id

(***************************************************************************)
(* Requests and responses.  req is the bag of requests in flight; last is  *)
(* the response the step just taken sent (NoResponse when it sent none),   *)
(* with the request it answers.                                            *)
(***************************************************************************)
NoBody == [username |-> None, email |-> None, password |-> None]

\* a todo payload: the fields the request sets, and their values
NoTodo == [set |-> {}, title |-> <<>>, description |-> <<>>, state |-> None]

\* no todo row
NoRow == [id |-> 0, user_id |-> 0, title |-> <<>>, description |-> <<>>,
          state |-> None, created_at |-> 0]

\* a request that passed get_current_user and waits for its handler
Authenticated(user, loaded) ==
    [pc |-> "handler", op |-> None, current_user |-> user, loaded_todos |-> loaded,
     body |-> NoBody, todo |-> NoTodo, todo_id |-> 0, db_todo |-> NoRow]

\* a request between its query and its commit
Pending(op, user, body, todo, todo_id) ==
    [pc |-> "commit", op |-> op, current_user |-> user, loaded_todos |-> {},
     body |-> body, todo |-> todo, todo_id |-> todo_id, db_todo |-> NoRow]

\* no token in the request
NoToken == [form |-> "missing", sub |-> None, exp |-> 0]

NoResponse == [op |-> None, status |-> 0, detail |-> None, exc |-> None,
               result |-> None, token |-> NoToken, current_user |-> NoUser,
               loaded_todos |-> {}, user_id |-> 0, todo_id |-> 0, body |-> NoBody,
               todo |-> NoTodo, filter |-> None, wrote |-> FALSE,
               db_todo |-> NoRow]

Response(op, status, detail) ==
    [NoResponse EXCEPT !.op = op, !.status = status, !.detail = detail]

\* an exception no handler catches: the server answers 500
ServerError(op, exc) ==
    [NoResponse EXCEPT !.op = op, !.status = 500,
                       !.detail = "Internal Server Error", !.exc = exc]

\* security.py: credentials_exception
CredentialsException(op) == Response(op, 401, "Could not validate credentials")

\* mutant of UserPublic: the response model keeps every column of the row
UserPublic_all_columns(u) == u

\* schemas.py: UserPublic
UserPublic(u) == [id |-> u.id, username |-> u.username, email |-> u.email]

ProtectedOps == {"read_users", "update_user", "delete_user", "refresh_access_token",
                 "create_todo", "list_todos", "delete_todo", "patch_todo"}

PublicOps == {"create_user", "get_user", "login_for_access_token"}

\* what a client can put in the Authorization header
Presentable ==
    {[form |-> "signed", sub |-> t.sub, exp |-> t.exp] : t \in issued}
    \cup {[form |-> "badsig", sub |-> t.sub, exp |-> t.exp] : t \in issued}
    \cup {[form |-> "malformed", sub |-> None, exp |-> 0], NoToken}
    \* a token the service signs for a payload without sub
    \cup {create_access_token(None, now)}

InFlight == BagToSet(req)

Arrive(r) == req' = req (+) SetToBag({r})

Leave(r) == req' = req (-) SetToBag({r})

Become(r, q) == req' = (req (-) SetToBag({r})) (+) SetToBag({q})

CanArrive == BagCardinality(req) < MaxInFlight

\* the response of the step, with whether the step changed a stored row
Send(response) ==
    last' = [response EXCEPT !.wrote = (users' # users \/ todos' # todos)]

\* the client keeps at most MaxTokens tokens; a full client drops the old ones
Issue(token, uid) ==
    LET t == [sub |-> token.sub, exp |-> token.exp, uid |-> uid] IN
    issued' = IF Cardinality(issued \cup {t}) <= MaxTokens THEN issued \cup {t} ELSE {t}

Init ==
    /\ users = {}
    /\ todos = {}
    /\ user_seq = 0
    /\ todo_seq = 0
    /\ now = 0
    /\ issued = {}
    /\ req = EmptyBag
    /\ last = NoResponse

Tick ==
    /\ \E d \in TickSteps : now + d <= MaxNow /\ now' = now + d
    /\ last' = NoResponse
    /\ UNCHANGED <<users, todos, user_seq, todo_seq, issued, req>>

(***************************************************************************)
(* A request to a protected route arrives: Depends(get_current_user).      *)
(* Every protected route declares the same dependency, and nothing of the  *)
(* request but its token is read before the handler runs: the route and    *)
(* its arguments are drawn in the handler's step.  A response this step    *)
(* sends carries the op "protected".                                       *)
(***************************************************************************)
Authenticate(token) ==
    LET op == "protected" IN
    /\ CanArrive
    /\ UNCHANGED <<users, todos, user_seq, todo_seq, now, issued>>
    /\ LET r == get_current_user(token, now, users) IN
       IF token = NoToken
           \* OAuth2PasswordBearer finds no Authorization header
           THEN /\ Send([Response(op, 401, "Not authenticated") EXCEPT !.token = token])
                /\ UNCHANGED req
       ELSE IF r.raised = "credentials_exception"
           THEN /\ Send([CredentialsException(op) EXCEPT !.token = token])
                /\ UNCHANGED req
       ELSE IF r.raised # ""
           THEN /\ Send([ServerError(op, r.raised) EXCEPT !.token = token])
                /\ UNCHANGED req
       ELSE \* User.todos is loaded with the user (lazy='selectin')
            /\ Arrive(Authenticated(r.user, {x \in todos : x.user_id = r.user.id}))
            \* no response yet: last keeps the token and the user it resolved to
            /\ last' = [NoResponse EXCEPT !.op = op, !.token = token,
                                          !.current_user = r.user]

(***************************************************************************)
(* routers/users.py                                                        *)
(***************************************************************************)
\* the creations in flight (the model lets in no more than it has ids for)
PendingCreates == {r \in InFlight : r.op = "create_user"}

\* mutant of NotOwner: the handler lets any authenticated caller through
NotOwner_unchecked(current_user, user_id) == FALSE

\* if current_user.id != user_id
NotOwner(current_user, user_id) == current_user.id # user_id

\* POST /users/: the query and the checks on the row it returns
create_user(body) ==
    /\ CanArrive
    /\ UNCHANGED <<users, todos, user_seq, todo_seq, now, issued>>
    /\ LET found == {u \in users : u.username = body.username \/ u.email = body.email} IN
       IF found = {}
           THEN /\ user_seq + Cardinality(PendingCreates) < MaxUserId
                /\ Arrive(Pending("create_user", NoUser, body, NoTodo, 0))
                /\ last' = NoResponse
       ELSE \* session.scalar: the first row of a query that states no order
            \E db_user \in found :
              /\ UNCHANGED req
              /\ IF db_user.username = body.username
                     THEN Send([Response("create_user", 409, "Username already exists")
                                  EXCEPT !.body = body])
                 ELSE Send([Response("create_user", 409, "Email already exists")
                              EXCEPT !.body = body])

\* POST /users/: session.add, session.commit, session.refresh
create_user_commit(r, salt) ==
    /\ r.pc = "commit" /\ r.op = "create_user"
    /\ Leave(r)
    /\ UNCHANGED <<todos, todo_seq, now, issued>>
    /\ LET db_user == [id |-> user_seq + 1, username |-> r.body.username,
                       email |-> r.body.email,
                       password |-> get_password_hash(r.body.password, salt)] IN
       IF UniqueViolation(users, db_user)
           THEN /\ UNCHANGED <<users, user_seq>>
                /\ Send([ServerError("create_user", "IntegrityError") EXCEPT !.body = r.body])
       ELSE /\ users' = users \cup {db_user}
            /\ user_seq' = user_seq + 1
            /\ Send([Response("create_user", 201, None)
                       EXCEPT !.result = UserPublic(db_user), !.body = r.body])

\* mutant of RolledBack: the row the failed commit flushed stays in the table
RolledBack_flushed(rows, row) == {u \in rows : u.id # row.id} \cup {row}

\* the table after a commit that raised: the transaction is rolled back when
\* the request's session closes, and nothing of the flushed row is kept
RolledBack(rows, row) == rows

\* PUT /users/{user_id}
update_user(r, user_id, body, salt) ==
    /\ r.pc = "handler"
    /\ Leave(r)
    /\ UNCHANGED <<todos, user_seq, todo_seq, now, issued>>
    /\ LET current_user == r.current_user
           row == [id |-> current_user.id, username |-> body.username,
                   email |-> body.email,
                   password |-> get_password_hash(body.password, salt)]
           answer(a) == [a EXCEPT !.current_user = current_user,
                                  !.user_id = user_id, !.body = body] IN
       IF NotOwner(current_user, user_id)
           THEN /\ UNCHANGED users
                /\ Send(answer(Response("update_user", 403, "Not enough permissions")))
       ELSE IF ~\E u \in users : u.id = current_user.id
           \* the UPDATE matches no row
           THEN /\ UNCHANGED users
                /\ Send(answer(ServerError("update_user", "StaleDataError")))
       ELSE IF UniqueViolation(users, row)
           \* except IntegrityError
           THEN /\ users' = RolledBack(users, row)
                /\ Send(answer(Response("update_user", 409,
                                        "Username or email already exists")))
       ELSE /\ users' = {u \in users : u.id # current_user.id} \cup {row}
            /\ Send(answer([Response("update_user", 200, None)
                              EXCEPT !.result = UserPublic(row)]))

\* DELETE /users/{user_id}: session.delete cascades over the todos loaded with the user
delete_user(r, user_id) ==
    /\ r.pc = "handler"
    /\ Leave(r)
    /\ UNCHANGED <<user_seq, todo_seq, now, issued>>
    /\ LET current_user == r.current_user
           kept == {t \in todos : t.id \notin {x.id : x \in r.loaded_todos}}
           answer(a) == [a EXCEPT !.current_user = current_user, !.user_id = user_id,
                                  !.loaded_todos = r.loaded_todos] IN
       IF NotOwner(current_user, user_id)
           THEN /\ UNCHANGED <<users, todos>>
                /\ Send(answer(Response("delete_user", 403, "Not enough permissions")))
       ELSE IF ForeignKeyViolation({u \in users : u.id # current_user.id}, kept)
           \* a todo the session never loaded still references the user
           THEN /\ UNCHANGED <<users, todos>>
                /\ Send(answer(ServerError("delete_user", "IntegrityError")))
       ELSE /\ users' = {u \in users : u.id # current_user.id}
            /\ todos' = kept
            /\ Send(answer([Response("delete_user", 200, None)
                              EXCEPT !.result = "User deleted"]))

\* GET /users/{user_id}
get_user(user_id) ==
    /\ CanArrive
    /\ UNCHANGED <<users, todos, user_seq, todo_seq, now, issued, req>>
    /\ LET found == {u \in users : u.id = user_id} IN
       IF found = {}
           THEN Send([Response("get_user", 404, "User not found")
                        EXCEPT !.user_id = user_id])
       ELSE \E user_db \in found :
              Send([Response("get_user", 200, None)
                      EXCEPT !.result = UserPublic(user_db), !.user_id = user_id])

\* OFFSET n
Drop(seq, n) == SubSeq(seq, n + 1, Len(seq))

\* LIMIT n
Take(seq, n) == SubSeq(seq, 1, IF n < Len(seq) THEN n ELSE Len(seq))

\* the orders in which a query that states no order can return the rows
Orderings(S) ==
    {f \in [1..Cardinality(S) -> S] : \A i, j \in 1..Cardinality(S) : f[i] = f[j] => i = j}

\* schemas.py: FilterPage, offset 0 and limit 10 by default
FilterPage(offset, limit) == [offset |-> offset, limit |-> limit]

\* GET /users/: select(User).offset(...).limit(...)
read_users(r, filter_users) ==
    /\ r.pc = "handler"
    /\ Leave(r)
    /\ UNCHANGED <<users, todos, user_seq, todo_seq, now, issued>>
    /\ \E rows \in Orderings(users) :
          Send([Response("read_users", 200, None)
                  EXCEPT !.result = [i \in DOMAIN Take(Drop(rows, filter_users.offset),
                                                       filter_users.limit) |->
                                        UserPublic(Take(Drop(rows, filter_users.offset),
                                                        filter_users.limit)[i])],
                         !.current_user = r.current_user, !.filter = filter_users])

(***************************************************************************)
(* routers/auth.py                                                         *)
(***************************************************************************)
\* POST /auth/token
login_for_access_token(username, password) ==
    /\ CanArrive
    /\ UNCHANGED <<users, todos, user_seq, todo_seq, now, req>>
    /\ LET found == UserByEmail(users, username)
           form == [NoBody EXCEPT !.email = username, !.password = password]
           answer(a) == [a EXCEPT !.body = form] IN
       IF found = {}
           THEN /\ UNCHANGED issued
                /\ Send(answer(Response("login_for_access_token", 401,
                                        "Incorrect email or password")))
       ELSE \E user \in found :
              LET verdict == verify_password(password, user.password)
                  access_token == create_access_token(user.email, now) IN
              IF verdict = "False"
                  THEN /\ UNCHANGED issued
                       /\ Send(answer(Response("login_for_access_token", 401,
                                               "Incorrect email or password")))
              ELSE IF verdict # "True"
                  THEN /\ UNCHANGED issued
                       /\ Send(answer(ServerError("login_for_access_token", verdict)))
              ELSE /\ Issue(access_token, user.id)
                   /\ Send(answer([Response("login_for_access_token", 200, None)
                                     EXCEPT !.result = access_token,
                                            !.current_user = user]))

\* POST /auth/refresh/token
refresh_access_token(r) ==
    /\ r.pc = "handler"
    /\ Leave(r)
    /\ UNCHANGED <<users, todos, user_seq, todo_seq, now>>
    /\ LET access_token == create_access_token(r.current_user.email, now) IN
       /\ Issue(access_token, r.current_user.id)
       /\ Send([Response("refresh_access_token", 200, None)
                  EXCEPT !.result = access_token, !.current_user = r.current_user])

(***************************************************************************)
(* routers/todos.py                                                        *)
(***************************************************************************)
\* mutant of TodoSchema: the state defaults to TodoState.draft
TodoSchema_default_draft(title, description, state) ==
    [set |-> {"title", "description"} \cup (IF state = None THEN {} ELSE {"state"}),
     title |-> title, description |-> description,
     state |-> IF state = None THEN "draft" ELSE state]

\* schemas.py: TodoSchema, state defaults to TodoState.todo
TodoSchema(title, description, state) ==
    [set |-> {"title", "description"} \cup (IF state = None THEN {} ELSE {"state"}),
     title |-> title, description |-> description,
     state |-> IF state = None THEN "todo" ELSE state]

\* a body or a query the route's schema does not accept: 422, the handler does
\* not run
RequestValidationError(op) == Response(op, 422, "Unprocessable Entity")

\* POST /todos/
create_todo(r, todo) ==
    /\ r.pc = "handler"
    /\ todo_seq < MaxTodoId
    /\ Leave(r)
    /\ UNCHANGED <<users, user_seq, now, issued>>
    /\ LET db_todo == [id |-> todo_seq + 1, user_id |-> r.current_user.id,
                       title |-> todo.title, description |-> todo.description,
                       state |-> todo.state,
                       \* server_default=func.now()
                       created_at |-> now]
           answer(a) == [a EXCEPT !.current_user = r.current_user, !.todo = todo] IN
       IF todo.state \notin TodoState
           \* state: TodoState
           THEN /\ UNCHANGED <<todos, todo_seq>>
                /\ Send(answer(RequestValidationError("create_todo")))
       ELSE IF ForeignKeyViolation(users, {db_todo})
           THEN /\ UNCHANGED <<todos, todo_seq>>
                /\ Send(answer(ServerError("create_todo", "IntegrityError")))
       ELSE /\ todos' = todos \cup {db_todo}
            /\ todo_seq' = todo_seq + 1
            /\ Send(answer([Response("create_todo", 201, None) EXCEPT !.result = db_todo]))

\* the store's LIKE: in the pattern % stands for any characters and _ for any
\* one character; every other character stands for itself, case included
RECURSIVE Like(_, _)
Like(seq, pattern) ==
    IF pattern = <<>> THEN seq = <<>>
    ELSE IF Head(pattern) = "%"
        THEN Like(seq, Tail(pattern)) \/ (seq # <<>> /\ Like(Tail(seq), pattern))
    ELSE /\ seq # <<>>
         /\ Head(pattern) = "_" \/ Head(pattern) = Head(seq)
         /\ Like(Tail(seq), Tail(pattern))

\* Todo.title.contains(sub): title LIKE '%' || sub || '%', sub not escaped
Contains(seq, sub) == Like(seq, <<"%">> \o sub \o <<"%">>)

\* mutant of TodoQuery: the query without where(Todo.user_id == user.id)
TodoQuery_any_owner(rows, user, f) ==
    {t \in rows :
        /\ (f.title # <<>> => Contains(t.title, f.title))
        /\ (f.description # <<>> => Contains(t.description, f.description))
        /\ (f.state # None => t.state = f.state)}

\* the rows list_todos selects; an empty title or description and a state of
\* None are falsy and add no filter
TodoQuery(rows, user, f) ==
    {t \in rows :
        /\ t.user_id = user.id
        /\ (f.title # <<>> => Contains(t.title, f.title))
        /\ (f.description # <<>> => Contains(t.description, f.description))
        /\ (f.state # None => t.state = f.state)}

\* the object the session returns for a row a query selects: the one in its
\* identity map, with the values it was loaded with, when the session holds one
InSession(r, t) ==
    IF \E x \in r.loaded_todos : x.id = t.id
        THEN CHOOSE x \in r.loaded_todos : x.id = t.id
    ELSE t

\* GET /todos/: query.limit(...).offset(...)
list_todos(r, f) ==
    /\ r.pc = "handler"
    /\ Leave(r)
    /\ UNCHANGED <<users, todos, user_seq, todo_seq, now, issued>>
    /\ \E rows \in Orderings(TodoQuery(todos, r.current_user, f)) :
          Send([Response("list_todos", 200, None)
                  EXCEPT !.result = [i \in DOMAIN Take(Drop(rows, f.offset), f.limit) |->
                                        InSession(r, Take(Drop(rows, f.offset), f.limit)[i])],
                         !.current_user = r.current_user, !.filter = f])

\* mutant of OwnTodo: the query without Todo.user_id == user.id
OwnTodo_any_owner(rows, todo_id, user) == {t \in rows : t.id = todo_id}

\* mutant of OwnTodo: a finished task is no longer found
OwnTodo_not_done(rows, todo_id, user) ==
    {t \in rows : t.id = todo_id /\ t.user_id = user.id /\ t.state # "done"}

\* select(Todo).where(Todo.id == todo_id, Todo.user_id == user.id)
OwnTodo(rows, todo_id, user) == {t \in rows : t.id = todo_id /\ t.user_id = user.id}

\* DELETE /todos/{todo_id}: the query
delete_todo(r, todo_id) ==
    /\ r.pc = "handler"
    /\ UNCHANGED <<users, todos, user_seq, todo_seq, now, issued>>
    /\ IF OwnTodo(todos, todo_id, r.current_user) = {}
           THEN /\ Leave(r)
                /\ Send([Response("delete_todo", 404, "Task not found.")
                           EXCEPT !.current_user = r.current_user, !.todo_id = todo_id])
       ELSE /\ Become(r, Pending("delete_todo", r.current_user, NoBody, NoTodo, todo_id))
            /\ last' = NoResponse

\* DELETE /todos/{todo_id}: session.delete, session.commit
delete_todo_commit(r) ==
    /\ r.pc = "commit" /\ r.op = "delete_todo"
    /\ Leave(r)
    /\ UNCHANGED <<users, user_seq, todo_seq, now, issued>>
    /\ todos' = {t \in todos : t.id # r.todo_id}
    /\ Send([Response("delete_todo", 200, None)
               EXCEPT !.result = "Task has been deleted successfully",
                      !.current_user = r.current_user, !.todo_id = r.todo_id])

\* PATCH /todos/{todo_id}: the query
patch_todo(r, todo_id, todo) ==
    /\ r.pc = "handler"
    /\ UNCHANGED <<users, todos, user_seq, todo_seq, now, issued>>
    /\ IF todo.state \notin TodoState \cup {None}
           \* state: TodoState | None
           THEN /\ Leave(r)
                /\ Send([RequestValidationError("patch_todo")
                           EXCEPT !.current_user = r.current_user, !.todo_id = todo_id,
                                  !.todo = todo])
       ELSE IF OwnTodo(todos, todo_id, r.current_user) = {}
           THEN /\ Leave(r)
                /\ Send([Response("patch_todo", 404, "Task not found.")
                           EXCEPT !.current_user = r.current_user, !.todo_id = todo_id,
                                  !.todo = todo])
       ELSE \* db_todo: the row as the session loaded it
            \E t \in OwnTodo(todos, todo_id, r.current_user) :
              /\ Become(r, [Pending("patch_todo", r.current_user, NoBody, todo, todo_id)
                              EXCEPT !.db_todo = InSession(r, t)])
              /\ last' = NoResponse

\* todo.model_dump(exclude_unset=True) and setattr on db_todo, the row as the
\* session loaded it; the UPDATE the commit emits on the stored row t sets the
\* columns whose value setattr changed
Patched(t, db_todo, todo) ==
    [t EXCEPT !.title = IF "title" \in todo.set /\ todo.title # db_todo.title
                            THEN todo.title ELSE @,
              !.description = IF "description" \in todo.set
                                     /\ todo.description # db_todo.description
                                  THEN todo.description ELSE @,
              !.state = IF "state" \in todo.set /\ todo.state # db_todo.state
                            THEN todo.state ELSE @]

\* todos.state is a column that is not nullable
NotNullViolation(row) == row.state = None

\* PATCH /todos/{todo_id}: session.add, session.commit, session.refresh
patch_todo_commit(r) ==
    /\ r.pc = "commit" /\ r.op = "patch_todo"
    /\ Leave(r)
    /\ UNCHANGED <<users, user_seq, todo_seq, now, issued>>
    /\ LET found == {t \in todos : t.id = r.todo_id}
           answer(a) == [a EXCEPT !.current_user = r.current_user,
                                  !.todo_id = r.todo_id, !.todo = r.todo,
                                  !.db_todo = r.db_todo] IN
       IF found = {}
           \* the row is gone: the UPDATE, or the refresh, matches no row
           THEN /\ UNCHANGED todos
                /\ Send(answer(ServerError("patch_todo", "StaleDataError")))
       ELSE IF \E t \in found : NotNullViolation(Patched(t, r.db_todo, r.todo))
           \* the body set state to null: the UPDATE violates NOT NULL
           THEN /\ UNCHANGED todos
                /\ Send(answer(ServerError("patch_todo", "IntegrityError")))
       ELSE \E t \in found :
              /\ todos' = (todos \ {t}) \cup {Patched(t, r.db_todo, r.todo)}
              \* session.refresh: the response is the row as stored
              /\ Send(answer([Response("patch_todo", 200, None)
                                EXCEPT !.result = Patched(t, r.db_todo, r.todo)]))

(***************************************************************************)
(* The identity and authentication routes.                                 *)
(***************************************************************************)
NewUsers == [username : Usernames, email : Emails, password : NewPasswords]

Pages == {FilterPage(0, 10), FilterPage(1, 1)}

Next ==
    \/ Tick
    \/ \E token \in Presentable : Authenticate(token)
    \/ \E body \in NewUsers : create_user(body)
    \/ \E r \in InFlight, salt \in Salts : create_user_commit(r, salt)
    \/ \E r \in InFlight, user_id \in UserIds, body \in NewUsers, salt \in Salts :
          update_user(r, user_id, body, salt)
    \/ \E r \in InFlight, user_id \in UserIds : delete_user(r, user_id)
    \/ \E user_id \in UserIds : get_user(user_id)
    \/ \E username \in Emails, password \in Passwords :
          login_for_access_token(username, password)
    \/ \E r \in InFlight : refresh_access_token(r)
    \/ \E r \in InFlight, filter_users \in Pages : read_users(r, filter_users)


Spec == Init /\ [][Next]_vars

(***************************************************************************)
(* The todo routes, for two registered users.                              *)
(***************************************************************************)
NewTodos ==
    {TodoSchema(title, description, state) :
        title \in Titles, description \in Descriptions,
        state \in {None, "doing", "invalid"}}

TodoPatches ==
    {[NoTodo EXCEPT !.set = {"state"}, !.state = "done"],
     \* a value outside the enumeration, and an explicit null
     [NoTodo EXCEPT !.set = {"state"}, !.state = "invalid"],
     [NoTodo EXCEPT !.set = {"state"}, !.state = None],
     [NoTodo EXCEPT !.set = {"title"}, !.title = <<"O", "t", "h">>],
     [NoTodo EXCEPT !.set = {"title"}, !.title = <<"T", "e", "s", "t">>]}

\* schemas.py: FilterTodo, offset 0 and limit 10 by default
FilterTodo(title, description, state, offset, limit) ==
    [title |-> title, description |-> description, state |-> state,
     offset |-> offset, limit |-> limit]

Filters ==
    {FilterTodo(<<>>, <<>>, None, 0, 10),
     FilterTodo(<<"T", "e", "s">>, <<>>, None, 0, 10),
     FilterTodo(<<"T", "_", "s">>, <<>>, None, 0, 10),
     FilterTodo(<<>>, <<"d">>, "todo", 1, 1)}

Registered(id, username, email) ==
    [id |-> id, username |-> username, email |-> email,
     password |-> get_password_hash("pw1", "s1")]

\* alice created a task at time 0; TickSteps later the clients go on
InitTodos ==
    /\ users = {Registered(1, "alice", "a@x"), Registered(2, "bob", "b@x")}
    /\ todos = {[id |-> 1, user_id |-> 1, title |-> <<"T", "e", "s", "t">>,
                 description |-> <<"d">>, state |-> "todo", created_at |-> 0]}
    /\ user_seq = 2
    /\ todo_seq = 1
    /\ now \in TickSteps
    /\ issued = {}
    /\ req = EmptyBag
    /\ last = NoResponse

NextTodos ==
    \/ \E username \in Emails, password \in NewPasswords :
          login_for_access_token(username, password)
    \/ \E token \in Presentable : Authenticate(token)
    \/ \E r \in InFlight, todo \in NewTodos : create_todo(r, todo)
    \/ \E r \in InFlight, f \in Filters : list_todos(r, f)
    \/ \E r \in InFlight, todo_id \in TodoIds : delete_todo(r, todo_id)
    \/ \E r \in InFlight : delete_todo_commit(r)
    \/ \E r \in InFlight, todo_id \in TodoIds, todo \in TodoPatches :
          patch_todo(r, todo_id, todo)
    \/ \E r \in InFlight : patch_todo_commit(r)
    \/ \E r \in InFlight, user_id \in UserIds : delete_user(r, user_id)

SpecTodos == InitTodos /\ [][NextTodos]_vars

(***************************************************************************)
(* The login route over rows whose password column was written directly to *)
(* the store: users.password is a plain string column and can hold a       *)
(* digest, a plaintext, or a string with an argon2 prefix that is no       *)
(* digest.                                                                 *)
(***************************************************************************)
\* a password column holding the plaintext
PlainText(password) == [alg |-> "plain", salt |-> None, pw |-> password]

\* a string pwdlib identifies as argon2 by its prefix and argon2 cannot parse
InvalidArgon2 == [alg |-> "argon2", salt |-> None, pw |-> None]

StoredPasswords ==
    {get_password_hash(p, salt) : p \in Passwords, salt \in Salts}
    \cup {PlainText(p) : p \in NewPasswords}
    \cup {InvalidArgon2}

InitStored ==
    /\ users \in {{[Registered(1, "alice", "a@x") EXCEPT !.password = h1],
                   [Registered(2, "bob", "b@x") EXCEPT !.password = h2]} :
                      h1 \in StoredPasswords, h2 \in StoredPasswords}
                \cup {{[Registered(1, "alice", "a@x") EXCEPT !.password = h1]} :
                         h1 \in StoredPasswords}
    /\ todos = {}
    /\ user_seq = 2
    /\ todo_seq = 0
    /\ now = 0
    /\ issued = {}
    /\ req = EmptyBag
    /\ last = NoResponse

NextStored ==
    \/ Tick
    \/ \E username \in Emails, password \in Passwords :
          login_for_access_token(username, password)
    \/ \E token \in Presentable : Authenticate(token)
    \/ \E r \in InFlight : refresh_access_token(r)
    \/ \E r \in InFlight, user_id \in UserIds, body \in NewUsers, salt \in Salts :
          update_user(r, user_id, body, salt)

SpecStored == InitStored /\ [][NextStored]_vars

(***************************************************************************)
(* Properties.                                                             *)
(***************************************************************************)
\* what the caller sees of a response
Visible(response) == <<response.status, response.detail, response.result>>

Unauthorized == <<401, "Could not validate credentials", None>>

\* the step just taken ran get_current_user on last.token and answered the request
AuthenticationFailed == last.op = "protected" /\ last.status # 0

\* a token issued by login or refresh: signed by the service, with a subject
IssuedToken(token) == token.form = "signed" /\ token.sub # None

\* the time T at which create_access_token made the token
IssuedAt(token) == token.exp - ACCESS_TOKEN_EXPIRE_MINUTES

\* C1: a protected operation that presents a token issued at time T later than
\* T + 30 minutes fails with Unauthorized (401, 'Could not validate credentials')
\* and changes no stored identity or task.
C1_ExpiredTokenUnauthorized ==
    (/\ last.op = "protected"
     /\ IssuedToken(last.token)
     /\ now > IssuedAt(last.token) + ACCESS_TOKEN_EXPIRE_MINUTES)
    => (Visible(last) = Unauthorized /\ ~last.wrote)

\* C2: identity resolution fails with the same Unauthorized outcome when the
\* token cannot be decoded or is wrongly signed, when its payload has no subject,
\* and when its subject email matches no stored identity.
C2_UniformUnauthorized ==
    (/\ last.op = "protected"
     /\ \/ last.token.form \in {"malformed", "badsig"}
        \/ last.token.form = "signed" /\ last.token.sub = None
        \/ IssuedToken(last.token) /\ UserByEmail(users, last.token.sub) = {})
    => Visible(last) = Unauthorized

\* C3: the protected routes run only after identity resolution has succeeded; a
\* request to one of them without a token that resolves to a stored identity
\* ends with Unauthorized (401) and changes no state.
C3_GateUnauthorized ==
    /\ AuthenticationFailed => (last.status = 401 /\ ~last.wrote)
    /\ last.op \in ProtectedOps =>
          (last.current_user # NoUser /\ last.current_user.id \in 1..user_seq)
    /\ last.wrote => last.op \in (ProtectedOps \cup {"create_user"})

\* C4: update and delete of an identity by a caller whose id differs from the
\* path id fail with Forbidden ('Not enough permissions') whatever the payload,
\* and modify or remove no identity.
C4_ForbiddenForOthers ==
    (last.op \in {"update_user", "delete_user"} /\ last.current_user.id # last.user_id)
    => (Visible(last) = <<403, "Not enough permissions", None>> /\ ~last.wrote)

\* C4 witness: an update is refused although its payload takes the username of
\* the stored identity the path names
C4_Witness ==
    /\ last.op = "update_user" /\ last.status = 403
    /\ \E u \in users : u.id = last.user_id /\ u.username = last.body.username

\* C5: update and delete of a task id owned by another identity answer NotFound
\* ('Task not found.'), the answer for a task id that never existed, and leave
\* the other identity's task as it is. The answer is that of a request whose
\* body the route accepts: a body with a state outside the enumeration is
\* answered 422 before the task is looked up, and changes nothing either.
C5_ForeignTaskNotFound ==
    [][/\ \A t \in todos :
            (/\ last'.op \in {"delete_todo", "patch_todo"}
             /\ last'.todo_id = t.id
             /\ last'.current_user.id # t.user_id)
            => (/\ last'.todo.state \in TodoState \cup {None}
                     => Visible(last') = <<404, "Task not found.", None>>
                /\ t \in todos')
       /\ (/\ last'.op \in {"delete_todo", "patch_todo"}
           /\ last'.todo_id > todo_seq
           /\ last'.todo.state \in TodoState \cup {None})
          => Visible(last') = <<404, "Task not found.", None>>]_vars

\* C5 witness: a delete of another identity's task was answered NotFound
C5_Witness ==
    /\ last.op = "delete_todo" /\ last.status = 404
    /\ \E t \in todos : t.id = last.todo_id /\ t.user_id # last.current_user.id

\* C6: the task list returns only tasks whose owner id is the caller's id,
\* whatever the store holds and whatever the filter.
C6_ListOnlyOwnTasks ==
    last.op = "list_todos" =>
        \A i \in 1..Len(last.result) : last.result[i].user_id = last.current_user.id

\* C6 witness: a list came back non-empty while another identity's task, which
\* the filter would select, is stored
C6_Witness ==
    /\ last.op = "list_todos" /\ Len(last.result) > 0
    /\ \E u \in users :
          /\ u.id # last.current_user.id
          /\ TodoQuery(todos, u, last.filter) # {}

\* C7: no two stored identities share a username and no two share an email.
C7_UniqueUsernameAndEmail ==
    \A u, v \in users :
        u # v => (u.id # v.id /\ u.username # v.username /\ u.email # v.email)

\* C7 witness: an owner's update to another identity's email was refused while
\* two identities are stored
C7_Witness ==
    /\ last.op = "update_user" /\ last.status = 409
    /\ \E u \in users : u.id # last.current_user.id /\ u.email = last.body.email
    /\ \A u \in users : u.username = last.body.username => u.id = last.current_user.id

\* C8: a create that ends with a Conflict names the username whenever some
\* stored identity has the requested username, also when a different stored
\* identity has the requested email; it names the email only when no stored
\* identity has the username and some stored identity has the email.
C8_UsernameConflictFirst ==
    (last.op = "create_user" /\ last.status = 409) =>
        /\ (\E u \in users : u.username = last.body.username)
              => last.detail = "Username already exists"
        /\ last.detail = "Email already exists"
              => (/\ ~\E u \in users : u.username = last.body.username
                  /\ \E u \in users : u.email = last.body.email)

\* the new username or the new email belongs to a different stored identity
Collides(response) ==
    \E u \in users :
        /\ u.id # response.current_user.id
        /\ (u.username = response.body.username \/ u.email = response.body.email)

C10_NoOrphanTasks ==
    /\ \A t \in todos : \E u \in users : u.id = t.user_id
    /\ (last.op = "delete_user" /\ last.status = 200) =>
          /\ ~\E u \in users : u.id = last.user_id
          /\ ~\E t \in todos : t.user_id = last.user_id

\* C10 witness: a delete removed an identity that owned tasks
C10_Witness ==
    /\ last.op = "delete_user" /\ last.status = 200
    /\ last.loaded_todos # {}
    /\ last.wrote

\* C11: when two creates for the same username (or the same email) both pass
\* the pre-check before either commits, one stores an identity and the other
\* ends with Conflict (409); no create ends with an internal error.
C11_ConcurrentCreateConflict ==
    last.op = "create_user" =>
        /\ last.status \in {201, 409}
        /\ (last.status = 201) <=> last.wrote

\* C12: every update and every delete of an identity that passed identity
\* resolution ends in success, Forbidden or Conflict; an integrity violation
\* the store raises at commit is answered as Conflict (409), never as an
\* internal error.
C12_IntegrityViolationIsConflict ==
    last.op \in {"update_user", "delete_user"} =>
        /\ last.status \in {200, 403, 409}
        /\ last.exc = None

\* the stored identity with this email, whose stored hash is a hash of this password
Credentials(email, password) ==
    {u \in users : /\ u.email = email
                   /\ \E salt \in Salts : u.password = get_password_hash(password, salt)}

\* C13: login(email, password) returns a bearer token whose subject is that
\* email exactly when a stored identity has that email and the password
\* verifies against its stored hash; otherwise it fails with 401 'Incorrect
\* email or password', for an unknown email as for a wrong password, and
\* issues no token.
C13_LoginOutcome ==
    [][last'.op = "login_for_access_token" =>
          IF Credentials(last'.body.email, last'.body.password) # {}
              THEN /\ last'.status = 200
                   /\ last'.result.form = "signed"
                   /\ last'.result.sub = last'.body.email
                   /\ \E t \in issued' : t.sub = last'.result.sub /\ t.exp = last'.result.exp
          ELSE /\ Visible(last') = <<401, "Incorrect email or password", None>>
               /\ issued' = issued]_vars

\* C13 witness: a login with a stored email and a wrong password was refused
C13_Witness ==
    /\ last.op = "login_for_access_token" /\ last.status = 401
    /\ \E u \in users : u.email = last.body.email
    /\ issued # {}

\* C14: a token issued for a stored identity's email, presented before its
\* expiry (issue time + 30 minutes) while that identity still holds that email,
\* resolves to exactly that identity; the issued token carries the given
\* subject unchanged and an expiry equal to issue time plus the TTL.
C14_TokenRoundTrip ==
    /\ \A t \in issued :
          (/\ last.op = "protected"
           /\ last.token = [form |-> "signed", sub |-> t.sub, exp |-> t.exp]
           /\ now < t.exp
           /\ \E u \in users : u.id = t.uid /\ u.email = t.sub)
          => (/\ last.status = 0
              /\ last.current_user \in users
              /\ last.current_user.id = t.uid
              /\ last.current_user.email = t.sub)
    /\ (last.op = "login_for_access_token" /\ last.status = 200) =>
          /\ last.result.form = "signed"
          /\ last.result.sub = last.body.email
          /\ last.result.exp = now + ACCESS_TOKEN_EXPIRE_MINUTES
          /\ decode(last.result, now).sub = last.body.email

\* C14 witness: with two identities stored, a token was presented some time
\* after it was issued, before its expiry, and resolved to an identity
C14_Witness ==
    /\ last.op = "protected" /\ last.status = 0
    /\ IssuedToken(last.token)
    /\ now > IssuedAt(last.token)
    /\ last.current_user.id = 2
    /\ Cardinality(users) = 2

\* C15: refresh with a valid unexpired bearer token returns a new token whose
\* subject is the authenticated identity's current email and whose expiry is
\* the time of the refresh plus the TTL; with an invalid or expired bearer
\* token it returns 401 and no token.
C15_Refresh ==
    /\ (last.op = "refresh_access_token") =>
          /\ last.status = 200
          /\ last.result = [form |-> "signed", sub |-> last.current_user.email,
                            exp |-> now + ACCESS_TOKEN_EXPIRE_MINUTES]
    /\ (/\ last.op = "protected"
        /\ \/ last.token.form \in {"malformed", "badsig"}
           \/ last.token.form = "signed" /\ last.token.exp <= now)
       => (last.status = 401 /\ last.result = None)

\* C16: for every (username, email, password) accepted by create, a following
\* get(id) with the returned id returns that same id, username and email;
\* neither the response of create nor the response of get contains the
\* password or its hash.
C16_CreateThenGet ==
    [][/\ (last'.op = "create_user" /\ last'.status = 201) =>
             /\ DOMAIN last'.result = {"id", "username", "email"}
             /\ last'.result.username = last'.body.username
             /\ last'.result.email = last'.body.email
       /\ (/\ last.op = "create_user" /\ last.status = 201
           /\ last'.op = "get_user" /\ last'.user_id = last.result.id)
          => (/\ last'.status = 200
              /\ DOMAIN last'.result = {"id", "username", "email"}
              /\ last'.result.id = last.result.id
              /\ last'.result.username = last.body.username
              /\ last'.result.email = last.body.email)]_vars

\* C16 witness: a get returned the identity created last, a second identity
C16_Witness ==
    /\ last.op = "get_user" /\ last.status = 200
    /\ last.user_id = user_seq
    /\ last.result.username = "bob"
    /\ Cardinality(users) = 2

Malformed(hashed) ==
    ~\E p \in Passwords, salt \in Salts : hashed = get_password_hash(p, salt)

\* C18: verify(plaintext, digest) returns false and never raises when the
\* digest is malformed; a login against an identity whose stored password field
\* is not a valid digest ends with 401 'Incorrect email or password', not with
\* an internal error.
C18_MalformedDigestIsFalse ==
    \A u \in users :
        (/\ last.op = "login_for_access_token"
         /\ u.email = last.body.email
         /\ Malformed(u.password))
        => (/\ verify_password(last.body.password, u.password) = "False"
            /\ Visible(last) = <<401, "Incorrect email or password", None>>)

\* the value a patch gives a field: the request's when the field is present
Given(todo, field, previous) == IF field \in todo.set THEN todo[field] ELSE previous

\* C19: a successful partial update of a task sets exactly the fields present
\* in the request (among title, description, state) to the given values; every
\* absent field, and the task's id, owner id and creation timestamp, keep their
\* previous values, and no other task changes.
C19_PatchSetsPresentFields ==
    [][(last'.op = "patch_todo" /\ last'.status = 200) =>
          \E t \in todos :
             /\ t.id = last'.todo_id
             /\ todos' = (todos \ {t}) \cup
                          {[id |-> t.id, user_id |-> t.user_id,
                            created_at |-> t.created_at,
                            title |-> Given(last'.todo, "title", t.title),
                            description |-> Given(last'.todo, "description", t.description),
                            state |-> Given(last'.todo, "state", t.state)]}]_vars

\* sub occurs in seq as a contiguous substring, case-sensitive
IsSubstring(sub, seq) ==
    \E i \in 0..(Len(seq) - Len(sub)) : SubSeq(seq, i + 1, i + Len(sub)) = sub

\* the caller's tasks that satisfy every provided filter
Eligible(rows, user, f) ==
    {t \in rows :
        /\ t.user_id = user.id
        /\ (f.title # <<>> => IsSubstring(f.title, t.title))
        /\ (f.description # <<>> => IsSubstring(f.description, t.description))
        /\ (f.state # None => t.state = f.state)}

\* C20: the tasks eligible for a list result are exactly the caller's tasks
\* that satisfy every provided filter at once: the title contains the title
\* filter as a contiguous case-sensitive substring, the description contains the
\* description filter in the same sense, the state equals the state filter; a
\* filter that is not provided restricts nothing.
C20_ListEligibleTasks ==
    last.op = "list_todos" =>
        LET listed == {last.result[i].id : i \in 1..Len(last.result)}
            eligible == {t.id : t \in Eligible(todos, last.current_user, last.filter)}
        IN /\ listed \subseteq eligible
           /\ (last.filter.offset = 0 /\ last.filter.limit >= Cardinality(eligible))
                 => listed = eligible

Min(a, b) == IF a < b THEN a ELSE b

Max(a, b) == IF a > b THEN a ELSE b

\* C21: the task list applies offset and limit after filtering: when m of the
\* caller's tasks match the filters it returns exactly
\* min(limit, max(0, m - offset)) tasks.
C21_ListPagination ==
    last.op = "list_todos" =>
        LET m == Cardinality(Eligible(todos, last.current_user, last.filter))
        IN Len(last.result) = Min(last.filter.limit, Max(0, m - last.filter.offset))

\* the stored identities in the order of their creation: ids grow with it
CreationOrder(rows) ==
    CHOOSE f \in Orderings(rows) :
        \A i, j \in 1..Cardinality(rows) : i < j => f[i].id < f[j].id

\* C22: list(offset, limit) of identities returns the stored identities in
\* creation order, skipping the first offset of them and returning at most
\* limit, also after identities created earlier have been updated or deleted.
C22_ReadUsersInCreationOrder ==
    last.op = "read_users" =>
        LET page == Take(Drop(CreationOrder(users), last.filter.offset), last.filter.limit)
        IN last.result = [i \in DOMAIN page |-> UserPublic(page[i])]

\* C23: task create persists exactly one new task with a fresh id, an owner id
\* equal to the authenticated caller's id, the given title and description, and
\* the given state or todo when no state is given; no other task and no
\* identity changes.
C23_CreateTodo ==
    [][(last'.op = "create_todo" /\ last'.status = 201) =>
          /\ users' = users
          /\ \E new \in todos' :
                /\ todos' = todos \cup {new}
                /\ new.id > todo_seq
                /\ \A t \in todos : t.id # new.id
                /\ new.user_id = last'.current_user.id
                /\ new.title = last'.todo.title
                /\ new.description = last'.todo.description
                /\ new.state = IF "state" \in last'.todo.set THEN last'.todo.state
                               ELSE "todo"
                /\ last'.result = new]_vars

\* C23 witness: bob created a task without giving a state, next to alice's task
C23_Witness ==
    /\ last.op = "create_todo" /\ last.status = 201
    /\ "state" \notin last.todo.set
    /\ last.current_user.id = 2
    /\ Cardinality(todos) = 2

\* the five values a task's state can take
FiveStates == {"draft", "todo", "doing", "done", "trash"}

\* C24: in every reachable state every stored task's state is one of draft,
\* todo, doing, done, trash; a create or update request carrying another value
\* is rejected and stores nothing.
C24_StoredStateInEnum ==
    /\ \A t \in todos : t.state \in FiveStates
    /\ (/\ last.op \in {"create_todo", "patch_todo"}
        /\ "state" \in last.todo.set
        /\ last.todo.state \notin FiveStates)
       => (last.status \notin {200, 201} /\ ~last.wrote)

\* C24 witness: an owner's update of a stored task to a state outside the five
\* values was rejected
C24_Witness ==
    /\ last.op = "patch_todo" /\ last.status = 422
    /\ last.todo.state = "invalid"
    /\ \E t \in todos : t.id = last.todo_id /\ t.user_id = last.current_user.id

\* C25: a token issued to identity X (by login or refresh) never resolves to an
\* identity other than X, also after X changed its email or was deleted and
\* another identity registered with, or took over, X's former email.
C25_TokenNeverResolvesToOther ==
    \A t \in issued :
        (/\ last.op = "protected" /\ last.status = 0
         /\ last.token = [form |-> "signed", sub |-> t.sub, exp |-> t.exp])
        => last.current_user.id = t.uid

\* C26: a token issued to identity X keeps resolving to X at every moment
\* before its expiry at which X is still stored, whatever successful updates X
\* has made to its own username, email or password since the token was issued.
C26_TokenSurvivesUpdates ==
    \A t \in issued :
        (/\ last.op = "protected"
         /\ last.token = [form |-> "signed", sub |-> t.sub, exp |-> t.exp]
         /\ now < t.exp
         /\ \E u \in users : u.id = t.uid)
        => (last.status = 0 /\ last.current_user.id = t.uid)

C28_OnlyOwnerChangesTask ==
    [][\A t \in todos :
          LET after == {x \in todos' : x.id = t.id} IN
          /\ \A x \in after :
                /\ x.user_id = t.user_id
                /\ x # t => (/\ last'.op = "patch_todo"
                             /\ last'.todo_id = t.id
                             /\ last'.current_user.id = t.user_id)
          /\ after = {} =>
                \/ /\ last'.op = "delete_todo"
                   /\ last'.todo_id = t.id
                   /\ last'.current_user.id = t.user_id
                \/ /\ last'.op = "delete_user"
                   /\ last'.user_id = t.user_id
                   /\ last'.current_user.id = t.user_id]_vars

\* C28 witness: an owner's update changed a task while a task of the other
\* identity is stored
C28_Witness ==
    /\ last.op = "patch_todo" /\ last.status = 200 /\ last.wrote
    /\ \E t \in todos : t.user_id # last.current_user.id

StatePatches == {[NoTodo EXCEPT !.set = {"state"}, !.state = s] : s \in TodoState}

\* alice owns one task, in any state of the enumeration
InitStates ==
    /\ users = {Registered(1, "alice", "a@x"), Registered(2, "bob", "b@x")}
    /\ todos \in {{[id |-> 1, user_id |-> 1, title |-> <<"T", "e", "s", "t">>,
                    description |-> <<"d">>, state |-> s, created_at |-> 0]} :
                     s \in TodoState}
    /\ user_seq = 2
    /\ todo_seq = 1
    /\ now \in TickSteps
    /\ issued = {}
    /\ req = EmptyBag
    /\ last = NoResponse

NextStates ==
    \/ \E username \in Emails, password \in NewPasswords :
          login_for_access_token(username, password)
    \/ \E token \in Presentable : Authenticate(token)
    \/ \E r \in InFlight, todo_id \in TodoIds, todo \in StatePatches :
          patch_todo(r, todo_id, todo)
    \/ \E r \in InFlight : patch_todo_commit(r)

SpecStates == InitStates /\ [][NextStates]_vars

\* C30: an update by the owner that carries one of the five states is answered
\* 200 whatever the state of the stored task, the same state included, and it
\* leaves the task in the state it carried when the row the session loaded is
\* the row that is stored
C30_AnyStateToAnyState ==
    [][(/\ last'.op = "patch_todo"
        /\ "state" \in last'.todo.set /\ last'.todo.state \in FiveStates
        /\ \E t \in todos : /\ t.id = last'.todo_id
                            /\ t.user_id = last'.current_user.id
                            /\ t.state \in FiveStates)
       => /\ last'.status = 200
          /\ \A t \in todos :
                (t.id = last'.todo_id /\ t = last'.db_todo)
                   => /\ last'.result.state = last'.todo.state
                      /\ \E x \in todos' : x.id = t.id /\ x.state = last'.todo.state]_vars

\* a finished task of alice was set back to draft
C30_Witness ==
    /\ last.op = "patch_todo" /\ last.status = 200
    /\ last.todo.set = {"state"} /\ last.todo.state = "draft"
    /\ last.db_todo.state = "done" /\ last.db_todo.user_id = last.current_user.id
    /\ \E t \in todos : t.id = last.todo_id /\ t.state = "draft"
====
